---- MODULE Spec2Model ----
(***************************************************************************)
(* Model of the HelpDesk persistence layer (src/database.py): the users    *)
(* and tickets tables of the SQLite store, the Database methods that read  *)
(* and write them, the two reports computed from them, and the two clocks  *)
(* that stamp the rows; and of the front end (src/gui.py) that calls them: *)
(* the session of the TicketingApp, its frames and the windows of its      *)
(* dashboards.                                                              *)
(***************************************************************************)
EXTENDS Integers, Sequences, FiniteSets, TLC

VARIABLES
    conn,            \* "closed" | "open": whether a Database object holds the store
    schema,          \* "none" | "base" | "migrated": tables on disk
    users,           \* rows of table users, in id order
    tickets,         \* rows of table tickets, in id order
    in_transaction,  \* sqlite3 connection flag: an implicit BEGIN is not yet committed
    clock,           \* the wall clock, in UTC ticks
    tz,              \* local time minus UTC, fixed for a run
    committed,       \* the users and tickets rows the last commit made durable
    last,            \* the last Database call: its name, arguments and outcome
    current_user,    \* TicketingApp.current_user: the session's user, or NoUser
    shown,           \* the frame of the main window that show_frame raised last
    windows          \* the Toplevel windows the dashboards opened and not yet destroyed

(* The state of the front end (src/gui.py) *)
gui == <<current_user, shown, windows>>

vars == <<conn, schema, users, tickets, in_transaction, clock, tz, committed, last,
          current_user, shown, windows>>

----------------------------------------------------------------------------
(* Bounds of the model *)
MaxUsers == 4
MaxTickets == 2
MaxClock == 2

(* SQL NULL / Python None in a column *)
NULL == 0 - 1

(* TicketingApp.current_user = None *)
NoUser == [id |-> NULL, username |-> "None", role |-> "None"]

(* TicketingApp.__init__: nobody is logged in, the LoginFrame is raised,   *)
(* no dashboard and so none of their windows exists                        *)
TicketingAppInit(cu, sh, ws) ==
    /\ cu = NoUser
    /\ sh = "LoginFrame"
    /\ ws = {}

(* Values the callers pass *)
Usernames == {"admin", "alice", "bob", "carol"}
Passwords == {"admin", "pw"}
RoleInputs == {"admin", "agent", "requester"}
Statuses == {"Open", "In Progress", "Resolved"}
StatusInputs == Statuses \cup {"Closed"}
TzOffsets == {0 - 1, 0}

----------------------------------------------------------------------------
(* Outcomes of a call *)
RetNone == [kind |-> "return", value |-> "None"]
RetTuple(ok, msg) == [kind |-> "return", value |-> "tuple", ok |-> ok, msg |-> msg]
RetRow(u) == [kind |-> "return", value |-> "row", id |-> u.id, username |-> u.username, role |-> u.role]
Raise(e) == [kind |-> "raise", value |-> e]

(* hashlib.sha256(password.encode()).hexdigest(): a digest, distinct from  *)
(* the plaintext and distinct for the distinct passwords of the model      *)
_hash_password(password) == <<"sha256", password>>

(* datetime.datetime.now(): local time; CURRENT_TIMESTAMP: UTC *)
Now == clock + tz
CURRENT_TIMESTAMP == clock

Range(s) == {s[i] : i \in 1..Len(s)}

(* rows of users with the given username (UNIQUE: at most one) *)
UsersNamed(us, username) == {u \in Range(us) : u.username = username}

(* the row AUTOINCREMENT gives the next id to *)
NextId(rows) == Len(rows) + 1

----------------------------------------------------------------------------
(* The store when the program starts: no file (no tables); a store written *)
(* before the resolved_at column existed, whose tickets rows have the      *)
(* columns of CREATE TABLE tickets only; or a store earlier runs of this   *)
(* program left, with its users registered.                                *)
AdminRow == [id |-> 1, username |-> "admin", password |-> _hash_password("admin"), role |-> "admin"]

LegacyUsers ==
    <<AdminRow,
      [id |-> 2, username |-> "alice", password |-> _hash_password("pw"), role |-> "requester"],
      [id |-> 3, username |-> "bob", password |-> _hash_password("pw"), role |-> "agent"]>>

StoredUsers ==
    Append(LegacyUsers,
           [id |-> 4, username |-> "carol", password |-> _hash_password("pw"), role |-> "agent"])

LegacyTicket(status) ==
    [id |-> 1, title |-> "T", description |-> "D", status |-> status,
     created_at |-> 0, updated_at |-> IF status = "Open" THEN NULL ELSE 0,
     requester_id |-> 2, agent_id |-> IF status = "Open" THEN NULL ELSE 3]

Init ==
    /\ conn = "closed"
    /\ in_transaction = FALSE
    /\ clock = 1
    /\ tz \in TzOffsets
    /\ last = [op |-> "none"]
    /\ \/ /\ schema = "none"
          /\ users = <<>>
          /\ tickets = <<>>
       \/ /\ schema = "base"
          /\ users = LegacyUsers
          /\ \E status \in Statuses : tickets = <<LegacyTicket(status)>>
       \/ /\ schema = "migrated"
          /\ users = StoredUsers
          /\ tickets = <<>>
    /\ committed = [users |-> users, tickets |-> tickets]
    /\ TicketingAppInit(current_user, shown, windows)

----------------------------------------------------------------------------
(* a call that returns without conn.commit() *)
Commit_skipped(us, ts) == committed

(* self.conn.commit(): the rows the connection sees become the durable ones *)
Commit(us, ts) == [users |-> us, tickets |-> ts]

(* Database.create_tables: CREATE TABLE IF NOT EXISTS users / tickets; the *)
(* tickets table it creates has no resolved_at column.                     *)
create_tables(sch) == IF sch = "none" THEN "base" ELSE sch

(* Database._update_schema: ALTER TABLE tickets ADD COLUMN resolved_at when *)
(* the column is missing; every existing row gets NULL in it.               *)
AddResolvedAt(row) == row @@ [resolved_at |-> NULL]

(* a migration that adds the column anew on every store that has a        *)
(* tickets table                                                            *)
_update_schema_rows_every_time(sch, rows) ==
    IF sch # "none" THEN [i \in 1..Len(rows) |-> [resolved_at |-> NULL] @@ rows[i]] ELSE rows

(* on a store without tickets table the ALTER TABLE fails and the except   *)
(* clause passes: nothing changes                                           *)
_update_schema_rows(sch, rows) ==
    IF sch = "base" THEN [i \in 1..Len(rows) |-> AddResolvedAt(rows[i])] ELSE rows

_update_schema(sch) == IF sch = "base" THEN "migrated" ELSE sch

(* a bootstrap that inserts the admin row without looking for one *)
create_admin_always(us) ==
    Append(us, [id |-> NextId(us), username |-> "admin",
                password |-> _hash_password("admin"), role |-> "admin"])

(* Database.create_admin_if_not_exists *)
create_admin_if_not_exists(us) ==
    IF UsersNamed(us, "admin") = {}
    THEN Append(us, [id |-> NextId(us), username |-> "admin",
                     password |-> _hash_password("admin"), role |-> "admin"])
    ELSE us

(* Database.__init__: connect, create_tables, _update_schema, bootstrap *)
DatabaseInit ==
    /\ conn = "closed"
    /\ conn' = "open"
    /\ schema' = _update_schema(create_tables(schema))
    /\ tickets' = _update_schema_rows(create_tables(schema), tickets)
    /\ users' = create_admin_if_not_exists(users)
    /\ committed' = Commit(users', tickets')
    /\ in_transaction' = FALSE
    /\ last' = [op |-> "__init__"]
    /\ TicketingAppInit(current_user', shown', windows')
    /\ UNCHANGED <<clock, tz>>

(* Database._update_schema called once more on the open store *)
update_schema_again ==
    /\ conn = "open"
    /\ schema' = _update_schema(schema)
    /\ tickets' = _update_schema_rows(schema, tickets)
    /\ committed' = Commit(users, tickets')
    /\ last' = [op |-> "_update_schema"]
    /\ UNCHANGED <<conn, users, in_transaction, clock, tz>>
    /\ UNCHANGED gui

(* The process exits (main.py: mainloop returns); an open implicit         *)
(* transaction is rolled back with the connection: the rows are those of   *)
(* the last commit.                                                         *)
Exit ==
    /\ conn = "open"
    /\ conn' = "closed"
    /\ in_transaction' = FALSE
    /\ users' = committed.users
    /\ tickets' = committed.tickets
    /\ last' = [op |-> "exit"]
    /\ current_user' = NoUser
    /\ shown' = "LoginFrame"
    /\ windows' = {}
    /\ UNCHANGED <<schema, clock, tz, committed>>

(* Time passes *)
Tick ==
    /\ clock < MaxClock
    /\ clock' = clock + 1
    /\ UNCHANGED <<conn, schema, users, tickets, in_transaction, tz, committed, last>>
    /\ UNCHANGED gui

----------------------------------------------------------------------------
(* a lookup by username alone, the password not compared *)
check_credentials_by_name(us, username, password) ==
    LET rows == {u \in Range(us) : u.username = username}
    IN IF rows = {} THEN RetNone
       ELSE RetRow(CHOOSE u \in rows : \A v \in rows : u.id <= v.id)

(* Database.check_credentials *)
check_credentials_result(us, username, password) ==
    LET rows == {u \in Range(us) : u.username = username /\ u.password = _hash_password(password)}
    IN IF rows = {} THEN RetNone
       ELSE RetRow(CHOOSE u \in rows : \A v \in rows : u.id <= v.id)

check_credentials(username, password) ==
    /\ conn = "open"
    /\ last' = [op |-> "check_credentials", username |-> username, password |-> password,
                result |-> check_credentials_result(users, username, password)]
    /\ UNCHANGED <<conn, schema, users, tickets, in_transaction, clock, tz, committed>>

(* a users table whose username column is not UNIQUE *)
UniqueViolation_never(us, username) == FALSE

(* username TEXT UNIQUE NOT NULL: the INSERT of a username already in the   *)
(* table fails                                                              *)
UniqueViolation(us, username) == UsersNamed(us, username) # {}

(* Database.register_user *)
RegisterRoles == {"requester", "agent"}

register_user(username, password, role) ==
    /\ conn = "open"
    /\ IF role \notin RegisterRoles
       THEN /\ last' = [op |-> "register_user", username |-> username, role |-> role,
                        result |-> RetTuple(FALSE, "Invalid role specified.")]
            /\ UNCHANGED <<users, in_transaction, committed>>
       ELSE IF UniqueViolation(users, username)
       THEN \* UNIQUE constraint: sqlite3.IntegrityError, the statement has no effect
            /\ last' = [op |-> "register_user", username |-> username, role |-> role,
                        result |-> RetTuple(FALSE, "Username already exists.")]
            /\ in_transaction' = TRUE
            /\ UNCHANGED <<users, committed>>
       ELSE /\ Len(users) < MaxUsers
            /\ users' = Append(users, [id |-> NextId(users), username |-> username,
                                       password |-> _hash_password(password), role |-> role])
            /\ committed' = Commit(users', tickets)
            /\ in_transaction' = FALSE
            /\ last' = [op |-> "register_user", username |-> username, role |-> role,
                        result |-> RetTuple(TRUE, "User registered successfully.")]
    /\ UNCHANGED <<conn, schema, tickets, clock, tz>>

----------------------------------------------------------------------------
(* Database.create_ticket; FOREIGN KEY clauses are not enforced by the     *)
(* connection (no PRAGMA foreign_keys)                                     *)
create_ticket(title, description, requester_id) ==
    /\ conn = "open"
    /\ Len(tickets) < MaxTickets
    /\ tickets' = Append(tickets,
          [id |-> NextId(tickets), title |-> title, description |-> description,
           status |-> "Open", created_at |-> CURRENT_TIMESTAMP, updated_at |-> NULL,
           requester_id |-> requester_id, agent_id |-> NULL, resolved_at |-> NULL])
    /\ committed' = Commit(users, tickets')
    /\ in_transaction' = FALSE
    /\ last' = [op |-> "create_ticket", requester_id |-> requester_id, result |-> RetNone]
    /\ UNCHANGED <<conn, schema, users, clock, tz>>

(* an assignment that also moves the ticket to In Progress *)
AssignRow_starts_work(row, agent_id, now) ==
    [row EXCEPT !.agent_id = agent_id, !.updated_at = now, !.status = "In Progress"]

(* Database.assign_ticket: UPDATE ... WHERE id = ? *)
AssignRow(row, agent_id, now) == [row EXCEPT !.agent_id = agent_id, !.updated_at = now]

assign_ticket(ticket_id, agent_id) ==
    /\ conn = "open"
    /\ tickets' = [i \in 1..Len(tickets) |->
                      IF tickets[i].id = ticket_id
                      THEN AssignRow(tickets[i], agent_id, Now) ELSE tickets[i]]
    /\ committed' = Commit(users, tickets')
    /\ in_transaction' = FALSE
    /\ last' = [op |-> "assign_ticket", ticket_id |-> ticket_id, agent_id |-> agent_id,
                result |-> RetNone]
    /\ UNCHANGED <<conn, schema, users, clock, tz>>

(* a status update without the else branch that clears resolved_at *)
StatusRow_keeps_resolved_at(row, new_status, now) ==
    [row EXCEPT !.status = new_status, !.updated_at = now,
                !.resolved_at = IF new_status = "Resolved" THEN now ELSE @]

(* Database.update_ticket_status *)
StatusRow(row, new_status, now) ==
    [row EXCEPT !.status = new_status, !.updated_at = now,
                !.resolved_at = IF new_status = "Resolved" THEN now ELSE NULL]

update_ticket_status(ticket_id, new_status) ==
    /\ conn = "open"
    /\ IF new_status \notin Statuses /\ \E i \in 1..Len(tickets) : tickets[i].id = ticket_id
       THEN \* CHECK(status IN ...) fails on the matched row: sqlite3.IntegrityError
            \* propagates, the statement has no effect, commit() is not reached
            /\ last' = [op |-> "update_ticket_status", ticket_id |-> ticket_id,
                        new_status |-> new_status, result |-> Raise("sqlite3.IntegrityError")]
            /\ in_transaction' = TRUE
            /\ UNCHANGED <<tickets, committed>>
       ELSE /\ tickets' = [i \in 1..Len(tickets) |->
                              IF tickets[i].id = ticket_id
                              THEN StatusRow(tickets[i], new_status, Now) ELSE tickets[i]]
            /\ committed' = Commit(users, tickets')
            /\ in_transaction' = FALSE
            /\ last' = [op |-> "update_ticket_status", ticket_id |-> ticket_id,
                        new_status |-> new_status, result |-> RetNone]
    /\ UNCHANGED <<conn, schema, users, clock, tz>>

----------------------------------------------------------------------------
(* the one users row with the id, as a set: the rows a JOIN ... ON x = id  *)
(* matches (id is the PRIMARY KEY; NULL matches no row)                    *)
UsersWithId(us, id) == {u \in Range(us) : u.id = id}

(* Database.get_ticket_details: the ticket joined to its requester (inner  *)
(* JOIN: no row when requester_id names no user) and to its agent (LEFT    *)
(* JOIN, COALESCE(ag.username, 'Not Assigned')); fetchone() gives None     *)
(* when the result is empty                                                *)
get_ticket_details_result(us, ts, ticket_id) ==
    LET rows == {<<t, req>> \in Range(ts) \X Range(us) :
                    t.id = ticket_id /\ t.requester_id = req.id}
    IN IF rows = {} THEN RetNone
       ELSE LET r == CHOOSE r \in rows : TRUE
                t == r[1]
                ag == UsersWithId(us, t.agent_id)
            IN [kind |-> "return", value |-> "details",
                id |-> t.id, title |-> t.title, description |-> t.description,
                status |-> t.status, requester |-> r[2].username,
                agent |-> IF ag = {} THEN "Not Assigned"
                          ELSE (CHOOSE u \in ag : TRUE).username,
                created_at |-> t.created_at, updated_at |-> t.updated_at,
                resolved_at |-> t.resolved_at]

get_ticket_details(ticket_id) ==
    /\ conn = "open"
    /\ last' = [op |-> "get_ticket_details", ticket_id |-> ticket_id,
                result |-> get_ticket_details_result(users, tickets, ticket_id)]
    /\ UNCHANGED <<conn, schema, users, tickets, in_transaction, clock, tz, committed>>

----------------------------------------------------------------------------
(* datetime.timedelta(days=7), in ticks of the clock: where a report is    *)
(* taken the clock counts days                                              *)
timedelta_days == 7

(* Database.get_weekly_report: the Resolved tickets whose updated_at is    *)
(* not before now - 7 days, joined to their agent by an inner JOIN; a NULL *)
(* updated_at satisfies no comparison. The rows are kept as a set: ORDER   *)
(* BY updated_at DESC leaves ties in any order.                             *)
get_weekly_report_result(us, ts, now) ==
    LET seven_days_ago == now - timedelta_days
    IN {[id |-> r[1].id, title |-> r[1].title, agent |-> r[2].username,
         updated_at |-> r[1].updated_at] :
           r \in {<<t, ag>> \in Range(ts) \X Range(us) :
                      /\ t.agent_id = ag.id
                      /\ t.status = "Resolved"
                      /\ t.updated_at # NULL
                      /\ t.updated_at >= seven_days_ago}}

get_weekly_report ==
    /\ conn = "open"
    /\ last' = [op |-> "get_weekly_report", now |-> Now,
                result |-> get_weekly_report_result(users, tickets, Now)]
    /\ UNCHANGED <<conn, schema, users, tickets, in_transaction, clock, tz, committed>>
    /\ UNCHANGED gui

----------------------------------------------------------------------------
(* JULIANDAY(x): the day number of a timestamp, counted from noon of       *)
(* 24 November 4714 BC; the clock of the model counts from 1970-01-01,     *)
(* whose day number is JulianDayOfEpoch (rounded to the day). NULL in,     *)
(* NULL out.                                                                *)
JulianDayOfEpoch == 2440588
JULIANDAY(x) == IF x = NULL THEN NULL ELSE x + JulianDayOfEpoch

(* A computed value of SQL that may be negative: <<v>>, or <<>> for NULL   *)
NoValue == <<>>

(* a - b of SQL: NULL when an operand is NULL *)
Minus(a, b) == IF a = NULL \/ b = NULL THEN NoValue ELSE <<a - b>>

RECURSIVE GCD(_, _)
GCD(a, b) == IF b = 0 THEN a ELSE GCD(b, a % b)
Abs(x) == IF x < 0 THEN 0 - x ELSE x

(* the quotient sum / n as a fraction in lowest terms, n > 0 *)
Fraction(sum, n) ==
    LET g == GCD(Abs(sum), n)
    IN [num |-> sum \div g, den |-> n \div g]

(* the NULL that AVG gives, among the fractions *)
NullAverage == [num |-> NULL, den |-> NULL]

RECURSIVE SumOf(_, _)
SumOf(f, S) == IF S = {} THEN 0
               ELSE LET x == CHOOSE x \in S : TRUE IN f[x][1] + SumOf(f, S \ {x})

(* AVG(expr) over the rows S, expr given as a function of the row: the     *)
(* rows where expr is NULL are not counted; NULL when none is left         *)
AVG(f, S) ==
    LET vals == {x \in S : f[x] # NoValue}
    IN IF vals = {} THEN NullAverage ELSE Fraction(SumOf(f, vals), Cardinality(vals))

(* a report that takes every ticket that is not Open for a resolved one *)
PerformanceRow_not_open(u, ts) ==
    LET mine == {t \in Range(ts) : t.agent_id = u.id}
        days == [t \in mine |-> IF t.status # "Open"
                                THEN Minus(JULIANDAY(t.resolved_at), JULIANDAY(t.created_at))
                                ELSE NoValue]
    IN [username |-> u.username,
        assigned_tickets |-> Cardinality(mine),
        resolved_tickets |-> Cardinality({t \in mine : t.status # "Open"}),
        avg_resolution_days |-> AVG(days, mine)]

(* the row of one agent in Database.get_agent_performance_report: the      *)
(* tickets LEFT JOINed ON u.id = t.agent_id, COUNT(t.id), SUM(CASE WHEN    *)
(* status = 'Resolved' THEN 1 ELSE 0 END), AVG(CASE WHEN status =          *)
(* 'Resolved' THEN JULIANDAY(resolved_at) - JULIANDAY(created_at) ELSE     *)
(* NULL END)                                                                *)
PerformanceRow(u, ts) ==
    LET mine == {t \in Range(ts) : t.agent_id = u.id}
        days == [t \in mine |-> IF t.status = "Resolved"
                                THEN Minus(JULIANDAY(t.resolved_at), JULIANDAY(t.created_at))
                                ELSE NoValue]
    IN [username |-> u.username,
        assigned_tickets |-> Cardinality(mine),
        resolved_tickets |-> Cardinality({t \in mine : t.status = "Resolved"}),
        avg_resolution_days |-> AVG(days, mine)]

(* a report with a row for every user *)
get_agent_performance_report_all_roles(us, ts) ==
    {PerformanceRow(u, ts) : u \in Range(us)}

(* Database.get_agent_performance_report: WHERE u.role = 'agent' GROUP BY  *)
(* u.id, u.username. The rows are kept as a set: ORDER BY resolved_tickets *)
(* DESC leaves ties in any order.                                           *)
get_agent_performance_report_result(us, ts) ==
    {PerformanceRow(u, ts) : u \in {v \in Range(us) : v.role = "agent"}}

get_agent_performance_report ==
    /\ conn = "open"
    /\ last' = [op |-> "get_agent_performance_report",
                result |-> get_agent_performance_report_result(users, tickets)]
    /\ UNCHANGED <<conn, schema, users, tickets, in_transaction, clock, tz, committed>>
    /\ UNCHANGED gui

----------------------------------------------------------------------------
(* The calls, with the values the callers pass *)
CallCheckCredentials ==
    /\ \E username \in Usernames, password \in Passwords :
            check_credentials(username, password)
    /\ UNCHANGED gui

CallRegisterUser ==
    /\ \E username \in Usernames, password \in Passwords, role \in RoleInputs :
            register_user(username, password, role)
    /\ UNCHANGED gui

(* AdminDashboard's "Add New Agent" form and RegisterFrame.register, as far *)
(* as the tickets see them: the password plays no part                     *)
CallRegisterStaff ==
    /\ \/ register_user("alice", "pw", "requester")
       \/ register_user("bob", "pw", "agent")
    /\ UNCHANGED gui

(* ids of the users with a role *)
IdsByRole(us, role) == {u.id : u \in {v \in Range(us) : v.role = role}}

(* The calls the dashboards make: RequesterDashboard.submit_ticket passes   *)
(* the logged-in requester, AdminDashboard.assign_ticket_window a listed    *)
(* ticket and an agent of get_users_by_role('agent'),                       *)
(* AgentDashboard.update_status_window a listed ticket and a status of its  *)
(* combobox.                                                                *)
CallCreateTicket ==
    /\ \E requester_id \in IdsByRole(users, "requester") :
            create_ticket("T", "D", requester_id)
    /\ UNCHANGED gui

CallAssignTicket ==
    /\ \E ticket_id \in 1..Len(tickets), agent_id \in IdsByRole(users, "agent") :
            assign_ticket(ticket_id, agent_id)
    /\ UNCHANGED gui

CallUpdateTicketStatus ==
    /\ \E ticket_id \in 1..Len(tickets), new_status \in Statuses :
            update_ticket_status(ticket_id, new_status)
    /\ UNCHANGED gui

(* Any caller of the Database object: an id of a user of any role, of no   *)
(* user or of no ticket, a status outside the enumeration                   *)
CallCreateTicketAny ==
    /\ \E requester_id \in 1..(Len(users) + 1) :
            create_ticket("T", "D", requester_id)
    /\ UNCHANGED gui

CallAssignTicketAny ==
    /\ \E ticket_id \in 1..(Len(tickets) + 1), agent_id \in 1..(Len(users) + 1) :
            assign_ticket(ticket_id, agent_id)
    /\ UNCHANGED gui

CallUpdateTicketStatusAny ==
    /\ \E ticket_id \in 1..(Len(tickets) + 1), new_status \in StatusInputs :
            update_ticket_status(ticket_id, new_status)
    /\ UNCHANGED gui

(* AdminDashboard.view_ticket_details / AgentDashboard.view_ticket_details, *)
(* or any caller, with the id of a ticket or of none                        *)
CallGetTicketDetails ==
    /\ \E ticket_id \in 1..(Len(tickets) + 1) : get_ticket_details(ticket_id)
    /\ UNCHANGED gui

(* A week passes at once; the clock then stays within the days after it *)
WeekPasses ==
    /\ clock <= MaxClock
    /\ clock' = clock + timedelta_days
    /\ UNCHANGED <<conn, schema, users, tickets, in_transaction, tz, committed, last>>
    /\ UNCHANGED gui

(* The account operations: startup, restart, registration, login check *)
NextAccounts ==
    \/ DatabaseInit
    \/ Exit
    \/ CallCheckCredentials
    \/ CallRegisterUser

SpecAccounts == Init /\ [][NextAccounts]_vars

(* The ticket operations of one run of the program, on the users the store *)
(* holds when it starts                                                     *)
NextTickets ==
    \/ DatabaseInit
    \/ Tick
    \/ CallCreateTicket
    \/ CallAssignTicket
    \/ CallUpdateTicketStatus

SpecTickets == Init /\ [][NextTickets]_vars

(* The store under any caller: ids that name no user, or a user of another role *)
NextStore ==
    \/ DatabaseInit
    \/ CallRegisterStaff
    \/ CallCreateTicketAny
    \/ CallAssignTicketAny
    \/ CallUpdateTicketStatusAny

SpecStore == Init /\ [][NextStore]_vars

(* Tickets created by any caller, assigned by the admin dashboard, and     *)
(* their details read                                                       *)
NextDetails ==
    \/ DatabaseInit
    \/ CallCreateTicketAny
    \/ CallAssignTicket
    \/ CallGetTicketDetails

SpecDetails == Init /\ [][NextDetails]_vars

(* A store earlier runs left with two open tickets of alice, none assigned; *)
(* the clock counts whole days and the local clock shows the day of UTC     *)
StoredTicket(id) == [AddResolvedAt(LegacyTicket("Open")) EXCEPT !.id = id]

InitWeekly ==
    /\ conn = "closed"
    /\ in_transaction = FALSE
    /\ clock = 1
    /\ tz = 0
    /\ last = [op |-> "none"]
    /\ schema = "migrated"
    /\ users = StoredUsers
    /\ tickets = <<StoredTicket(1), StoredTicket(2)>>
    /\ committed = [users |-> users, tickets |-> tickets]
    /\ TicketingAppInit(current_user, shown, windows)

(* The weekly report over the days of two weeks: the tickets are assigned  *)
(* and moved between statuses, a day or a week passes                       *)
NextWeekly ==
    \/ DatabaseInit
    \/ Tick
    \/ WeekPasses
    \/ CallAssignTicket
    \/ CallUpdateTicketStatus
    \/ get_weekly_report

SpecWeekly == InitWeekly /\ [][NextWeekly]_vars

(* The counts of the performance report over the tickets the dashboards   *)
(* create, assign and move between statuses, within one tick of the clock  *)
NextPerformance ==
    \/ DatabaseInit
    \/ CallCreateTicket
    \/ CallAssignTicket
    \/ CallUpdateTicketStatus
    \/ get_agent_performance_report

SpecPerformance == Init /\ [][NextPerformance]_vars

(* The mutating calls, those that fail among them (a taken username, a     *)
(* status outside the enumeration), and the exit that rolls back           *)
NextAtomic ==
    \/ DatabaseInit
    \/ Exit
    \/ CallRegisterStaff
    \/ CallCreateTicket
    \/ CallAssignTicket
    \/ CallUpdateTicketStatusAny

SpecAtomic == Init /\ [][NextAtomic]_vars

(* The migration at every startup and called once more, on stores of every *)
(* age, with tickets created and resolved between the runs                 *)
NextMigration ==
    \/ DatabaseInit
    \/ update_schema_again
    \/ Exit
    \/ CallCreateTicket
    \/ CallUpdateTicketStatus

SpecMigration == Init /\ [][NextMigration]_vars

----------------------------------------------------------------------------
(* The front end (src/gui.py): one TicketingApp window whose container     *)
(* stacks the LoginFrame, the RegisterFrame and the dashboard of the last  *)
(* login; show_frame raises one of them over the others. The dashboards    *)
(* open their dialogs as tb.Toplevel windows of their own, without a grab: *)
(* the main window stays usable while they are open, and they stay open    *)
(* until their handler destroys them or their dashboard is destroyed.      *)
MaxWindows == 2

Dashboards == {"AdminDashboard", "AgentDashboard", "RequesterDashboard"}

(* login_success: the dashboard class of a role, if any *)
dashboard_class(role) ==
    CASE role = "admin" -> "AdminDashboard"
      [] role = "agent" -> "AgentDashboard"
      [] role = "requester" -> "RequesterDashboard"
      [] OTHER -> "None"

(* The Toplevel windows and what their handlers captured when they opened *)
assign_win(ticket_id, agents) ==
    [kind |-> "assign_win", ticket_id |-> ticket_id, agents |-> agents]

update_win(ticket_id) ==
    [kind |-> "update_win", ticket_id |-> ticket_id, agents |-> {}]

(* TicketingApp.show_frame *)
show_frame(page_name) == shown' = page_name

(* TicketingApp.login_success: the session starts; the dashboards of       *)
(* earlier sessions are destroyed, and their Toplevel children with them,  *)
(* and the dashboard of the role is built and raised                       *)
login_success(user_data) ==
    /\ current_user' = [id |-> user_data.id, username |-> user_data.username,
                        role |-> user_data.role]
    /\ IF dashboard_class(user_data.role) # "None"
       THEN /\ windows' = {}
            /\ show_frame(dashboard_class(user_data.role))
       ELSE UNCHANGED <<shown, windows>>

(* LoginFrame.login, with both fields filled in *)
login ==
    /\ shown = "LoginFrame"
    /\ \E username \in Usernames, password \in Passwords :
        /\ check_credentials(username, password)
        /\ LET user_data == check_credentials_result(users, username, password)
           IN IF user_data # RetNone
              THEN login_success(user_data)
              ELSE UNCHANGED gui

(* TicketingApp.logout, the button of every dashboard: the dashboard is    *)
(* covered by the LoginFrame, neither it nor its windows are destroyed     *)
logout ==
    /\ conn = "open"
    /\ shown \in Dashboards
    /\ current_user' = NoUser
    /\ show_frame("LoginFrame")
    /\ UNCHANGED <<conn, schema, users, tickets, in_transaction, clock, tz, committed, last,
                   windows>>

(* The buttons "Register as Requester" of the LoginFrame and "Back to      *)
(* Login" of the RegisterFrame                                             *)
show_RegisterFrame ==
    /\ conn = "open"
    /\ shown = "LoginFrame"
    /\ show_frame("RegisterFrame")
    /\ UNCHANGED <<conn, schema, users, tickets, in_transaction, clock, tz, committed, last,
                   current_user, windows>>

show_LoginFrame ==
    /\ conn = "open"
    /\ shown = "RegisterFrame"
    /\ show_frame("LoginFrame")
    /\ UNCHANGED <<conn, schema, users, tickets, in_transaction, clock, tz, committed, last,
                   current_user, windows>>

(* RegisterFrame.register: a requester account under a taken or a free    *)
(* name; on success back to login                                          *)
register ==
    /\ shown = "RegisterFrame"
    /\ \E username \in {"admin", "alice"} :
        /\ register_user(username, "pw", "requester")
        /\ IF last'.result.ok THEN show_frame("LoginFrame") ELSE UNCHANGED shown
    /\ UNCHANGED <<current_user, windows>>

(* AdminDashboard.create_agent, under a name a requester may have taken *)
create_agent ==
    /\ shown = "AdminDashboard"
    /\ \E username \in {"alice", "bob"} : register_user(username, "pw", "agent")
    /\ UNCHANGED gui

(* RequesterDashboard.submit_ticket, with a title and a description *)
submit_ticket ==
    /\ shown = "RequesterDashboard"
    /\ create_ticket("T", "D", current_user.id)
    /\ UNCHANGED gui

(* AdminDashboard.assign_ticket_window: a ticket of the list is selected;  *)
(* the window keeps its id and the agents read when it opened              *)
assign_ticket_window ==
    /\ conn = "open"
    /\ shown = "AdminDashboard"
    /\ Cardinality(windows) < MaxWindows
    /\ \E ticket_id \in {tickets[i].id : i \in 1..Len(tickets)} :
        windows' = windows \cup {assign_win(ticket_id, IdsByRole(users, "agent"))}
    /\ UNCHANGED <<conn, schema, users, tickets, in_transaction, clock, tz, committed, last,
                   current_user, shown>>

(* do_assign, the "Assign" button of an open assign window, with an agent  *)
(* of its combobox selected                                                *)
do_assign ==
    \E w \in {v \in windows : v.kind = "assign_win"} :
        \E agent_id \in w.agents :
            /\ assign_ticket(w.ticket_id, agent_id)
            /\ windows' = windows \ {w}
            /\ UNCHANGED <<current_user, shown>>

(* Database.get_agent_tickets, which AgentDashboard.refresh_tickets_list   *)
(* reads for the logged-in agent: the ids of the tickets of the agent,     *)
(* joined to their requesters, that the list of the dashboard shows        *)
get_agent_tickets(us, ts, agent_id) ==
    {ts[i].id : i \in {j \in 1..Len(ts) :
                          /\ ts[j].agent_id = agent_id
                          /\ \E req \in Range(us) : req.id = ts[j].requester_id}}

(* AgentDashboard.update_status_window: a ticket of the list is selected;  *)
(* the window keeps its id                                                 *)
update_status_window ==
    /\ conn = "open"
    /\ shown = "AgentDashboard"
    /\ Cardinality(windows) < MaxWindows
    /\ \E ticket_id \in get_agent_tickets(users, tickets, current_user.id) :
        windows' = windows \cup {update_win(ticket_id)}
    /\ UNCHANGED <<conn, schema, users, tickets, in_transaction, clock, tz, committed, last,
                   current_user, shown>>

(* do_update, the "Update" button of an open update window, with a status  *)
(* of its combobox selected: the status is written, then the list of the   *)
(* dashboard is refreshed for current_user['id'], which raises TypeError   *)
(* when nobody is logged in and leaves the window open                     *)
do_update ==
    \E w \in {v \in windows : v.kind = "update_win"} :
        \E new_status \in Statuses :
            /\ update_ticket_status(w.ticket_id, new_status)
            /\ IF current_user = NoUser
               THEN UNCHANGED windows
               ELSE windows' = windows \ {w}
            /\ UNCHANGED <<current_user, shown>>

(* The program as its user drives it: main.py starts it, the frames and    *)
(* the dashboards take the clicks, the process exits                       *)
NextSession ==
    \/ DatabaseInit
    \/ Exit
    \/ login
    \/ logout
    \/ show_RegisterFrame
    \/ show_LoginFrame
    \/ register
    \/ create_agent
    \/ submit_ticket
    \/ assign_ticket_window
    \/ do_assign
    \/ update_status_window
    \/ do_update

SpecSession == Init /\ [][NextSession]_vars

(* Everything together; the properties below are checked under the         *)
(* specifications above, each a part of this one                           *)
Next ==
    \/ NextAccounts
    \/ NextTickets
    \/ NextStore
    \/ NextDetails
    \/ NextWeekly
    \/ NextPerformance
    \/ NextAtomic
    \/ NextMigration
    \/ NextSession

Spec == Init /\ [][Next]_vars

----------------------------------------------------------------------------
(* Properties *)

TicketIds == {tickets[i].id : i \in 1..Len(tickets)}

(* the record is that of a call of the method: a step of a method leaves   *)
(* its name and arguments in last, so a step formula reads them from last' *)
IsCall(op, rec) == rec.op = op
Bootstrapped == last.op # "none"

(* C1: in every state after startup, a ticket's resolved_at is non-null    *)
(* if and only if its status is Resolved.                                   *)
C1_ResolvedAtIffResolved ==
    conn = "open" =>
        \A i \in 1..Len(tickets) :
            (tickets[i].resolved_at # NULL) <=> (tickets[i].status = "Resolved")

(* C2: update_ticket_status(t, s) on an existing ticket with s in the      *)
(* enumeration returns normally from any current status and leaves         *)
(* status = s, updated_at = now, resolved_at = now if s is Resolved and    *)
(* null otherwise.                                                          *)
C2_UpdateStatusSets ==
    [][IsCall("update_ticket_status", last') =>
          LET t == last'.ticket_id
              s == last'.new_status
          IN (t \in 1..Len(tickets) /\ s \in Statuses /\ update_ticket_status(t, s)) =>
                 /\ last'.result = RetNone
                 /\ tickets'[t].status = s
                 /\ tickets'[t].updated_at = Now
                 /\ tickets'[t].resolved_at = (IF s = "Resolved" THEN Now ELSE NULL)]_vars

(* a ticket put back to In Progress at a later time than its creation: its *)
(* resolved_at is null and its updated_at is the time of the call           *)
C2_Witness ==
    /\ last.op = "update_ticket_status"
    /\ last.new_status = "In Progress"
    /\ last.ticket_id \in 1..Len(tickets)
    /\ tickets[last.ticket_id].status = "In Progress"
    /\ tickets[last.ticket_id].resolved_at = NULL
    /\ tickets[last.ticket_id].updated_at = Now
    /\ tickets[last.ticket_id].created_at < clock

(* C3: update_ticket_status with an id of no ticket ends in a              *)
(* TicketNotFound failure, not in the outcome of a successful update.      *)
C3_MissingTicketFails ==
    (last.op = "update_ticket_status" /\ last.ticket_id \notin TicketIds) =>
        last.result = Raise("TicketNotFound")

(* C4: update_ticket_status with a status outside the enumeration ends in  *)
(* an InvalidStatus failure before any write is attempted: no statement is *)
(* begun and no ticket changes.                                            *)
C4_InvalidStatusRejected ==
    [][IsCall("update_ticket_status", last') =>
          LET t == last'.ticket_id
              s == last'.new_status
          IN (s \notin Statuses /\ update_ticket_status(t, s)) =>
                 /\ last'.result = Raise("InvalidStatus")
                 /\ in_transaction' = in_transaction
                 /\ tickets' = tickets]_vars

(* C5: assign_ticket(t, a) sets agent_id = a and updated_at = now on       *)
(* ticket t, leaves its other columns as they were, and leaves every other *)
(* ticket unchanged.                                                        *)
C5_AssignFrame ==
    [][IsCall("assign_ticket", last') =>
          LET t == last'.ticket_id
              a == last'.agent_id
          IN (t \in 1..Len(tickets) /\ assign_ticket(t, a)) =>
                 /\ Len(tickets') = Len(tickets)
                 /\ tickets'[t].agent_id = a
                 /\ tickets'[t].updated_at = Now
                 /\ tickets'[t].status = tickets[t].status
                 /\ tickets'[t].resolved_at = tickets[t].resolved_at
                 /\ tickets'[t].title = tickets[t].title
                 /\ tickets'[t].description = tickets[t].description
                 /\ tickets'[t].created_at = tickets[t].created_at
                 /\ tickets'[t].requester_id = tickets[t].requester_id
                 /\ tickets'[t].id = tickets[t].id
                 /\ \A o \in 1..Len(tickets) : o # t => tickets'[o] = tickets[o]]_vars

(* a Resolved ticket, one of two, has just been assigned *)
C5_Witness ==
    /\ last.op = "assign_ticket"
    /\ Len(tickets) >= 2
    /\ last.ticket_id \in 1..Len(tickets)
    /\ tickets[last.ticket_id].status = "Resolved"
    /\ tickets[last.ticket_id].agent_id = last.agent_id
    /\ tickets[last.ticket_id].updated_at = Now
    /\ tickets[last.ticket_id].resolved_at < Now

(* C6: every ticket's agent_id is null or the id of a user with role       *)
(* agent, and assign_ticket of a ticket to any other agent_id fails with    *)
(* InvalidAgent.                                                            *)
C6_AgentIdReferencesAgent ==
    conn = "open" =>
        /\ \A i \in 1..Len(tickets) :
               tickets[i].agent_id = NULL \/ tickets[i].agent_id \in IdsByRole(users, "agent")
        /\ (/\ last.op = "assign_ticket"
            /\ last.ticket_id \in TicketIds
            /\ last.agent_id \notin IdsByRole(users, "agent")) =>
               last.result = Raise("InvalidAgent")

(* C7: every ticket's requester_id is the id of a user with role           *)
(* requester.                                                               *)
C7_RequesterIdReferencesRequester ==
    conn = "open" =>
        \A i \in 1..Len(tickets) : tickets[i].requester_id \in IdsByRole(users, "requester")

(* no two rows of users have the same username *)
UniqueUsernames ==
    \A i, j \in 1..Len(users) : users[i].username = users[j].username => i = j

DuplicateOutcome == RetTuple(FALSE, "Username already exists.")
InvalidRoleOutcome == RetTuple(FALSE, "Invalid role specified.")

(* a step of register_user with the name and role of the record *)
RegisterStep(rec) ==
    \E password \in Passwords : register_user(rec.username, password, rec.role)

(* C8, as stated: register_user with a username already in the table ends  *)
(* in the duplicate-username outcome, whatever the role, and leaves the     *)
(* users table unchanged; usernames are unique.                             *)
C8_DuplicateAlwaysDuplicateOutcome ==
    /\ []UniqueUsernames
    /\ [][(/\ IsCall("register_user", last')
           /\ UsersNamed(users, last'.username) # {}
           /\ RegisterStep(last')) =>
              (users' = users /\ last'.result = DuplicateOutcome)]_vars

(* C8, amended: register_user with a username already in the table leaves  *)
(* the users table unchanged and ends in the duplicate-username outcome     *)
(* when the role is agent or requester, in the invalid-role outcome         *)
(* otherwise; usernames are unique in every state.                          *)
C8_DuplicateUsernameRejected ==
    /\ []UniqueUsernames
    /\ [][(/\ IsCall("register_user", last')
           /\ UsersNamed(users, last'.username) # {}
           /\ RegisterStep(last')) =>
              /\ users' = users
              /\ last'.result = (IF last'.role \in RegisterRoles THEN DuplicateOutcome
                                 ELSE InvalidRoleOutcome)]_vars

(* the bootstrap name has just been refused to a registration as agent *)
C8_Witness ==
    /\ last.op = "register_user"
    /\ last.username = "admin"
    /\ last.role = "agent"
    /\ last.result = DuplicateOutcome
    /\ Len(users) >= 2

Admins == {i \in 1..Len(users) : users[i].role = "admin"}

(* C9: once the store is bootstrapped it holds exactly one admin, through  *)
(* registrations and restarts; register_user with a role outside agent and *)
(* requester writes nothing.                                                *)
C9_ExactlyOneAdmin ==
    /\ [](Bootstrapped => Cardinality(Admins) = 1)
    /\ [][(/\ IsCall("register_user", last')
           /\ last'.role \notin RegisterRoles
           /\ RegisterStep(last')) =>
              (users' = users /\ last'.result = InvalidRoleOutcome)]_vars

(* the program has started again on a store that holds a registered agent *)
C9_Witness ==
    /\ last.op = "__init__"
    /\ \E i \in 1..Len(users) : users[i].username = "alice" /\ users[i].role = "agent"
    /\ Cardinality(Admins) = 1

(* the rows a login with this name and password is entitled to *)
Entitled(username, password) ==
    {i \in 1..Len(users) :
        users[i].username = username /\ users[i].password = _hash_password(password)}

(* C10: check_credentials returns the (id, username, role) of the user     *)
(* with that name whose stored hash is the hash of the password, and None  *)
(* both for a wrong password and for an unknown name.                       *)
C10_CheckCredentials ==
    last.op = "check_credentials" =>
        LET ok == Entitled(last.username, last.password)
        IN /\ ok # {} =>
                  \E i \in ok : last.result = RetRow(users[i])
           /\ ok = {} => last.result = RetNone

(* a known name with a wrong password has got the generic failure *)
C10_Witness ==
    /\ last.op = "check_credentials"
    /\ UsersNamed(users, last.username) # {}
    /\ Entitled(last.username, last.password) = {}
    /\ last.result = RetNone

(* C11: the details fetched right after create_ticket are those of the new *)
(* ticket, found, with status Open, agent 'Not Assigned', updated_at and   *)
(* resolved_at null, whatever users and other tickets the store holds.     *)
C11_CreatedTicketIsFound ==
    [][(/\ last.op = "create_ticket"
        /\ IsCall("get_ticket_details", last')
        /\ last'.ticket_id = Len(tickets)
        /\ get_ticket_details(last'.ticket_id)) =>
           /\ last'.result # RetNone
           /\ last'.result.id = Len(tickets)
           /\ last'.result.status = "Open"
           /\ last'.result.agent = "Not Assigned"
           /\ last'.result.updated_at = NULL
           /\ last'.result.resolved_at = NULL]_vars

(* ids of the rows of a report *)
ReportIds(result) == {r.id : r \in result}

(* ids of the tickets that are Resolved with updated_at in the seven days  *)
(* before now                                                               *)
ResolvedInWindow(ts, now) ==
    {t.id : t \in {x \in Range(ts) : /\ x.status = "Resolved"
                                      /\ x.updated_at # NULL
                                      /\ x.updated_at >= now - timedelta_days}}

(* C12: get_weekly_report returns exactly the tickets whose status is      *)
(* Resolved and whose updated_at is at or after the time of the call minus *)
(* 7 days, with an agent assigned or without, and no other ticket.         *)
C12_WeeklyReportIsWindow ==
    [][(IsCall("get_weekly_report", last') /\ get_weekly_report) =>
           ReportIds(last'.result) = ResolvedInWindow(tickets, Now)]_vars

(* the Resolved tickets of the table that have their resolution time *)
ResolvedTickets(ts) == {t \in Range(ts) : t.status = "Resolved" /\ t.resolved_at # NULL}

(* C13: a ticket resolved more than 7 days before the call is not in the   *)
(* weekly report, and an assigned ticket resolved a day before the call or *)
(* later is in it, whatever was done to the tickets since their            *)
(* resolution, assign_ticket included. (The inclusion is stated for the    *)
(* tickets that have an agent; the others are the matter of C12.)          *)
C13_WeeklyReportFollowsResolution ==
    [][(IsCall("get_weekly_report", last') /\ get_weekly_report) =>
           \A t \in ResolvedTickets(tickets) :
               /\ t.resolved_at < Now - timedelta_days => t.id \notin ReportIds(last'.result)
               /\ (t.resolved_at >= Now - 1 /\ UsersWithId(users, t.agent_id) # {}) =>
                      t.id \in ReportIds(last'.result)]_vars

Agents(us) == {u \in Range(us) : u.role = "agent"}

(* the tickets whose agent_id is the user now *)
TicketsOf(u, ts) == {i \in 1..Len(ts) : ts[i].agent_id = u.id}

(* the report has one row for every agent and no other row *)
OneRowPerAgent(rep, us) ==
    /\ {r.username : r \in rep} = {u.username : u \in Agents(us)}
    /\ Cardinality(rep) = Cardinality(Agents(us))

(* C14, as stated: assigned_count is the number of tickets ever assigned   *)
(* to the agent: a ticket once assigned to an agent stays counted for      *)
(* them, so no operation lowers an agent's assigned_count; and the report  *)
(* has exactly one row per agent.                                           *)
C14_AssignedCountIsEverAssigned ==
    /\ [][(IsCall("get_agent_performance_report", last') /\ get_agent_performance_report) =>
              OneRowPerAgent(last'.result, users)]_vars
    /\ [][conn = "open" =>
              \A u \in Agents(users) :
                  PerformanceRow(u, tickets').assigned_tickets >=
                      PerformanceRow(u, tickets).assigned_tickets]_vars

(* C14, amended: the report has exactly one row for every user with role   *)
(* agent and none for other roles, and each row's assigned_count is the    *)
(* number of tickets whose agent_id is that agent at the time of the call, *)
(* in any status, 0 for an agent with none.                                 *)
C14_AssignedCountIsCurrent ==
    [][(IsCall("get_agent_performance_report", last') /\ get_agent_performance_report) =>
           /\ OneRowPerAgent(last'.result, users)
           /\ \A u \in Agents(users) :
                  \E r \in last'.result :
                      /\ r.username = u.username
                      /\ r.assigned_tickets = Cardinality(TicketsOf(u, tickets))]_vars

(* a report over four users, two of them agents: one agent has both        *)
(* tickets, one of them not Open, the other agent has none                  *)
C14_Witness ==
    /\ last.op = "get_agent_performance_report"
    /\ Len(users) = 4
    /\ Cardinality(last.result) = 2
    /\ \E r \in last.result : r.assigned_tickets = 0
    /\ \E r \in last.result : r.assigned_tickets = 2
    /\ \E i \in 1..Len(tickets) : tickets[i].status # "Open"

(* the table without the ticket *)
WithoutTicket(ts, ticket_id) == SelectSeq(ts, LAMBDA t : t.id # ticket_id)

(* C15: resolved_count is the number of the agent's tickets whose status   *)
(* is Resolved at the time of the call and never exceeds assigned_count;   *)
(* an agent with no ticket Resolved has no average; once a Resolved ticket *)
(* is set to Open or In Progress, its agent's resolved_count and average   *)
(* are those of the table without that ticket.                              *)
C15_ResolvedCountIsCurrent ==
    /\ [][(IsCall("get_agent_performance_report", last') /\ get_agent_performance_report) =>
              \A u \in Agents(users) :
                  \E r \in last'.result :
                      /\ r.username = u.username
                      /\ r.resolved_tickets =
                             Cardinality({i \in TicketsOf(u, tickets) : tickets[i].status = "Resolved"})
                      /\ r.resolved_tickets <= r.assigned_tickets
                      /\ r.resolved_tickets = 0 => r.avg_resolution_days = NullAverage]_vars
    /\ [][IsCall("update_ticket_status", last') =>
              LET t == last'.ticket_id
                  s == last'.new_status
              IN (/\ t \in 1..Len(tickets)
                  /\ tickets[t].status = "Resolved"
                  /\ s \in Statuses \ {"Resolved"}
                  /\ update_ticket_status(t, s)) =>
                     \A u \in Agents(users) :
                         LET after == PerformanceRow(u, tickets')
                             without == PerformanceRow(u, WithoutTicket(tickets, t))
                         IN /\ after.resolved_tickets = without.resolved_tickets
                            /\ after.avg_resolution_days = without.avg_resolution_days]_vars

(* a report in which an agent has a resolved_count of 1 in 2 and an        *)
(* average, while an assigned ticket written to since its creation is Open *)
C15_Witness ==
    /\ last.op = "get_agent_performance_report"
    /\ \E r \in last.result :
           /\ r.assigned_tickets = 2
           /\ r.resolved_tickets = 1
           /\ r.avg_resolution_days # NullAverage
    /\ \E i \in 1..Len(tickets) :
           /\ tickets[i].status = "Open"
           /\ tickets[i].agent_id # NULL
           /\ tickets[i].updated_at # NULL
           /\ tickets[i].updated_at > tickets[i].created_at

(* the agent's tickets that are Resolved now *)
ResolvedOf(u, ts) == {t \in Range(ts) : t.agent_id = u.id /\ t.status = "Resolved"}

(* the mean of resolved_at - created_at over the tickets, as a fraction *)
MeanResolutionDays(S) ==
    Fraction(SumOf([t \in S |-> <<t.resolved_at - t.created_at>>], S), Cardinality(S))

(* C16: avg_resolution_days of an agent is the arithmetic mean of          *)
(* resolved_at - created_at, in days, over the agent's tickets that are    *)
(* Resolved at the call, each of them having its resolution time, and is   *)
(* null when the agent has no Resolved ticket; an agent with no ticket     *)
(* gets (0, 0, null).                                                       *)
C16_AverageIsMeanOverResolved ==
    [][(IsCall("get_agent_performance_report", last') /\ get_agent_performance_report) =>
           \A u \in Agents(users) :
               \E r \in last'.result :
                   /\ r.username = u.username
                   /\ ResolvedOf(u, tickets) = {} => r.avg_resolution_days = NullAverage
                   /\ ResolvedOf(u, tickets) # {} =>
                          /\ \A t \in ResolvedOf(u, tickets) : t.resolved_at # NULL
                          /\ r.avg_resolution_days = MeanResolutionDays(ResolvedOf(u, tickets))
                   /\ TicketsOf(u, tickets) = {} =>
                          /\ r.assigned_tickets = 0
                          /\ r.resolved_tickets = 0
                          /\ r.avg_resolution_days = NullAverage]_vars

(* C17: resolved_at of a Resolved ticket is the time of its most recent    *)
(* change from another status to Resolved: update_ticket_status(t,         *)
(* 'Resolved') stamps it with the time of the call when the ticket was not *)
(* Resolved and leaves it as it was when the ticket was Resolved already.  *)
(* (Stated for the tickets whose resolved_at follows their status; a       *)
(* Resolved ticket without resolved_at is the matter of C1.)               *)
C17_ResolvedAtIsLastEntry ==
    [][IsCall("update_ticket_status", last') =>
          LET t == last'.ticket_id
          IN (/\ t \in 1..Len(tickets)
              /\ last'.new_status = "Resolved"
              /\ (tickets[t].status = "Resolved") <=> (tickets[t].resolved_at # NULL)
              /\ update_ticket_status(t, "Resolved")) =>
                 tickets'[t].resolved_at = (IF tickets[t].status = "Resolved"
                                            THEN tickets[t].resolved_at ELSE Now)]_vars

MutatingOps == {"create_ticket", "assign_ticket", "update_ticket_status", "register_user"}

(* the call of the record ended in a failure *)
Failed(rec) ==
    \/ rec.result.kind = "raise"
    \/ rec.result.value = "tuple" /\ ~rec.result.ok

(* the step made every column change of the call of the record, on its    *)
(* row only                                                                 *)
AllChanges(rec) ==
    LET sameButRow(t) ==
            /\ Len(tickets') = Len(tickets)
            /\ \A o \in 1..Len(tickets) : o # t => tickets'[o] = tickets[o]
    IN CASE rec.op = "update_ticket_status" ->
               /\ users' = users
               /\ rec.ticket_id \in 1..Len(tickets)
               /\ sameButRow(rec.ticket_id)
               /\ tickets'[rec.ticket_id] =
                      [tickets[rec.ticket_id] EXCEPT
                          !.status = rec.new_status,
                          !.updated_at = Now,
                          !.resolved_at = IF rec.new_status = "Resolved" THEN Now ELSE NULL]
         [] rec.op = "assign_ticket" ->
               /\ users' = users
               /\ rec.ticket_id \in 1..Len(tickets)
               /\ sameButRow(rec.ticket_id)
               /\ tickets'[rec.ticket_id] =
                      [tickets[rec.ticket_id] EXCEPT
                          !.agent_id = rec.agent_id, !.updated_at = Now]
         [] rec.op = "create_ticket" ->
               /\ users' = users
               /\ Len(tickets') = Len(tickets) + 1
               /\ SubSeq(tickets', 1, Len(tickets)) = tickets
               /\ tickets'[Len(tickets')].status = "Open"
               /\ tickets'[Len(tickets')].requester_id = rec.requester_id
               /\ tickets'[Len(tickets')].created_at = CURRENT_TIMESTAMP
         [] rec.op = "register_user" ->
               /\ tickets' = tickets
               /\ Len(users') = Len(users) + 1
               /\ SubSeq(users', 1, Len(users)) = users
               /\ users'[Len(users')].username = rec.username
               /\ users'[Len(users')].role = rec.role

(* C18: every mutating call is atomic: it makes and commits all its        *)
(* column changes, or it changes nothing, and a call that fails changes    *)
(* nothing; after every call the rows the connection sees are the rows     *)
(* committed, so that no read, no later commit and no rollback can bring   *)
(* out a write a failed call left behind.                                   *)
C18_MutationsAreAtomic ==
    /\ [](committed = [users |-> users, tickets |-> tickets])
    /\ [][last'.op \in MutatingOps =>
              /\ \/ users' = users /\ tickets' = tickets /\ committed' = committed
                 \/ AllChanges(last') /\ in_transaction' = FALSE /\ ~Failed(last')
              /\ Failed(last') =>
                     users' = users /\ tickets' = tickets /\ committed' = committed]_vars

(* an update to a status outside the enumeration has failed on a Resolved  *)
(* ticket, one of two: the implicit transaction is still open and the rows *)
(* are those of the last commit                                             *)
C18_Witness ==
    /\ last.op = "update_ticket_status"
    /\ last.result = Raise("sqlite3.IntegrityError")
    /\ in_transaction
    /\ Len(tickets) >= 2
    /\ tickets[last.ticket_id].status = "Resolved"
    /\ tickets[last.ticket_id].resolved_at # NULL
    /\ committed.tickets = tickets

(* the columns the row had are as they were in the new row *)
KeepsColumns(old, new) == \A c \in DOMAIN old : new[c] = old[c]

(* the migration of a store changes nothing when run on its own result *)
MigrationIsIdempotentOn(sch, rows) ==
    LET sch1 == _update_schema(sch)
        rows1 == _update_schema_rows(sch, rows)
    IN /\ _update_schema(sch1) = sch1
       /\ _update_schema_rows(sch1, rows1) = rows1

(* C19: the migration is idempotent and ends normally on every store: a    *)
(* tickets table without resolved_at gets the column, null in every        *)
(* existing row; a store that has the column, a second consecutive call    *)
(* included, is left as it is; the other columns of the tickets and the    *)
(* users rows are unchanged in both cases.                                  *)
C19_MigrationIsIdempotent ==
    /\ [](/\ MigrationIsIdempotentOn(schema, tickets)
          /\ MigrationIsIdempotentOn(create_tables(schema), tickets))
    /\ [][IsCall("__init__", last') =>
              /\ Len(tickets') = Len(tickets)
              /\ \A i \in 1..Len(tickets) :
                     /\ KeepsColumns(tickets[i], tickets'[i])
                     /\ DOMAIN tickets'[i] = DOMAIN tickets[i] \cup {"resolved_at"}
                     /\ "resolved_at" \notin DOMAIN tickets[i] => tickets'[i].resolved_at = NULL
              /\ SubSeq(users', 1, Len(users)) = users
              /\ schema' = "migrated"]_vars
    /\ [][IsCall("_update_schema", last') =>
              schema' = schema /\ tickets' = tickets /\ users' = users]_vars

(* the migration has been called once more on a store whose first ticket   *)
(* was written before the column existed and got null in it, and whose     *)
(* second ticket has been resolved since                                    *)
C19_Witness ==
    /\ last.op = "_update_schema"
    /\ Len(tickets) = 2
    /\ tickets[1].created_at = 0
    /\ tickets[1].status = "Resolved"
    /\ tickets[1].resolved_at = NULL
    /\ tickets[2].resolved_at # NULL

(* C20: whatever the fixed offset between the clock of CURRENT_TIMESTAMP   *)
(* and the clock of datetime.now(), a Resolved ticket's resolved_at is not *)
(* earlier than its created_at, and no agent's avg_resolution_days is      *)
(* negative. (Stated for the tickets that have a resolved_at; a Resolved   *)
(* ticket without one is the matter of C1.)                                 *)
C20_ResolvedNotBeforeCreated ==
    conn = "open" =>
        /\ \A t \in ResolvedTickets(tickets) : t.resolved_at >= t.created_at
        /\ \A u \in Agents(users) :
               LET avg == PerformanceRow(u, tickets).avg_resolution_days
               IN avg = NullAverage \/ avg.num >= 0

(* C21: through the front end, every create_ticket is called in the        *)
(* session of a requester with requester_id the logged-in user, every      *)
(* assign_ticket in the session of an admin with an agent_id of the        *)
(* current agents, every update_ticket_status in the session of an agent   *)
(* on a ticket whose agent_id is the logged-in agent, and the agent form   *)
(* of register_user in the session of an admin; so between a logout and    *)
(* the next successful login, when nobody is logged in, none of them is    *)
(* called. The calls are those of the handlers submit_ticket, do_assign,   *)
(* do_update and create_agent, the only callers in the front end.          *)
C21_CallsFollowSession ==
    [][/\ submit_ticket =>
              /\ current_user.role = "requester"
              /\ IsCall("create_ticket", last')
              /\ last'.requester_id = current_user.id
       /\ do_assign =>
              /\ current_user.role = "admin"
              /\ IsCall("assign_ticket", last')
              /\ last'.agent_id \in IdsByRole(users, "agent")
       /\ do_update =>
              /\ current_user.role = "agent"
              /\ IsCall("update_ticket_status", last')
              /\ last'.ticket_id \in get_agent_tickets(users, tickets, current_user.id)
       /\ create_agent => current_user.role = "admin"]_vars

====
